---- MODULE Spec2Model ----
(***************************************************************************)
(* A model of fastrace-tracing's FastraceCompatLayer (src/src/lib.rs): the *)
(* tracing_subscriber Layer that turns tokio-tracing span and event        *)
(* notifications into fastrace spans and events.                           *)
(*                                                                         *)
(* State: the registry's live spans, the fastrace::Span each of them       *)
(* carries in its extensions, every thread's stack of entered spans, its   *)
(* fastrace local parent and its THREAD_ID cell, and the layer's three     *)
(* flags.  One action per notification (on_new_span, on_record, on_event)  *)
(* and per step of the instrumented application that changes what the      *)
(* notifications read (enter, exit, set_local_parent).                     *)
(***************************************************************************)
EXTENDS Integers, Sequences, FiniteSets, TLC

(* ------------------------------ bounds -------------------------------- *)

\* Span identifiers the registry hands out.
MaxSpans == 3
\* Threads delivering notifications.
MaxThreads == 1
\* Spans entered at once on one thread.
MaxStack == 1
\* Properties one span record accumulates through field updates.
MaxProps == 7
\* Events attached to one span.
MaxEvents == 1
\* Fields of one event, where the field protocol is explored.
MaxFields == 2

SpanIds == 1..MaxSpans
Threads == 1..MaxThreads

(* --------------------- textual forms (to_string) ---------------------- *)

FIELD_EXCEPTION_MESSAGE == "exception.message"
FIELD_EXCEPTION_STACKTRACE == "exception.stacktrace"

DigitStr(d) ==
    CASE d = 0 -> "0" [] d = 1 -> "1" [] d = 2 -> "2" [] d = 3 -> "3"
      [] d = 4 -> "4" [] d = 5 -> "5" [] d = 6 -> "6" [] d = 7 -> "7"
      [] d = 8 -> "8" [] d = 9 -> "9"

\* u64 / u32 Display: decimal, no sign, no leading zeros.
RECURSIVE u64_to_string(_)
u64_to_string(n) ==
    IF n < 10 THEN DigitStr(n)
    ELSE u64_to_string(n \div 10) \o DigitStr(n % 10)

\* i64 Display.
i64_to_string(v) == IF v < 0 THEN "-" \o u64_to_string(0 - v) ELSE u64_to_string(v)

\* bool Display.
bool_to_string(b) == IF b THEN "true" ELSE "false"

RECURSIVE DigitsStr(_)
DigitsStr(ds) == IF ds = <<>> THEN "" ELSE DigitStr(Head(ds)) \o DigitsStr(Tail(ds))

\* f64 Display: NaN, inf, -inf, otherwise sign, integer part and, when there
\* is one, the fraction (1.0 prints as "1", 1.5 as "1.5").
f64_to_string(v) ==
    CASE v.class = "nan" -> "NaN"
      [] v.class = "inf" -> (IF v.neg THEN "-inf" ELSE "inf")
      [] OTHER ->
           (IF v.neg THEN "-" ELSE "") \o u64_to_string(v.int)
           \o (IF v.frac = <<>> THEN "" ELSE "." \o DigitsStr(v.frac))

\* format!("{:?}", s) of a string without characters that need an escape.
str_debug(s) == "\"" \o s \o "\""

\* format!("{:?}", value) of a &dyn Debug: fmt::Arguments print their text,
\* a string prints quoted.
debug_format(v) == IF v.form = "str" THEN str_debug(v.text) ELSE v.text

RECURSIVE vec_items_debug(_)
vec_items_debug(xs) ==
    IF xs = <<>> THEN ""
    ELSE IF Len(xs) = 1 THEN str_debug(xs[1])
    ELSE str_debug(Head(xs)) \o ", " \o vec_items_debug(Tail(xs))

\* format!("{:?}", chain) of a Vec<String>.
vec_debug(xs) == "[" \o vec_items_debug(xs) \o "]"

\* Level::as_str / Display, by the level's discriminant.
level_as_str(l) ==
    CASE l = 0 -> "TRACE" [] l = 1 -> "DEBUG" [] l = 2 -> "INFO"
      [] l = 3 -> "WARN" [] OTHER -> "ERROR"

(* --------------------------- field values ----------------------------- *)

BoolValue(b) == [kind |-> "bool", b |-> b]
I64Value(i) == [kind |-> "i64", i |-> i]
F64Value(class, neg, int, frac) ==
    [kind |-> "f64", class |-> class, neg |-> neg, int |-> int, frac |-> frac]
StrValue(s) == [kind |-> "str", s |-> s]
DebugValue(form, text) == [kind |-> "debug", form |-> form, text |-> text]
\* An error: its display text and its source(), <<>> for None and <<e>> for
\* Some(e), e an error in turn.
ErrorValue(display, source) ==
    [kind |-> "error", display |-> display, source |-> source]

\* let mut next_err = value.source();
\* while let Some(err) = next_err { chain.push(err.to_string()); next_err = err.source(); }
RECURSIVE error_chain(_)
error_chain(value) ==
    IF value.source = <<>> THEN <<>>
    ELSE <<value.source[1].display>> \o error_chain(value.source[1])

Field(name, value) == [name |-> name, value |-> value]

(* ---------------------- fastrace spans and events --------------------- *)

\* The extension slot of a span that carries no fastrace::Span.
NoSpan == [kind |-> "none"]

NoParent == [of |-> "none", id |-> 0]

\* A fastrace::Span as the layer builds it.  `via` is the constructor the
\* layer called and `parent` the handle it passed: the fastrace::Span of
\* host span `id` (of = "span") or the local parent of thread `id`
\* (of = "local").  `recording` is whether the span has an inner span:
\* Span::default() has none, and neither has a child entered with a parent
\* that has none.  `props` and `events` are what the layer attached with
\* with_property(-ies) and add_event, in call order.
MkSpan(via, parent, trace, recording, name) ==
    [kind |-> "span", via |-> via, parent |-> parent, trace |-> trace,
     recording |-> recording, name |-> name, props |-> <<>>, events |-> <<>>]

\* fastrace::Span::root(name, SpanContext::random()): `trace` is the random
\* trace identity.
Span_root(name, trace) == MkSpan("root", NoParent, trace, TRUE, name)

\* fastrace::Span::enter_with_parent(name, parent), parent being the
\* fastrace::Span `p` that host span `pid` carries.
Span_enter_with_parent(name, pid, p) ==
    MkSpan("parent", [of |-> "span", id |-> pid], p.trace, p.recording, name)

\* The trace identity of the fastrace root the application holds on thread t
\* (never one SpanContext::random() hands to the layer, whose are positive).
AmbientTrace(t) == 0 - t

\* fastrace::Span::enter_with_local_parent(name) on thread t.
Span_enter_with_local_parent(name, t) ==
    MkSpan("local_parent", [of |-> "local", id |-> t], AmbientTrace(t), TRUE, name)

\* fastrace::Span::default(): a span that records nothing.
Span_default == MkSpan("default", NoParent, 0, FALSE, "")

\* span.with_property(|| (key, value)) and event.with_property(...).
with_property(x, key, value) == [x EXCEPT !.props = Append(@, <<key, value>>)]

\* span.with_properties(|| props) and event.with_properties(...).
with_properties(x, props) == [x EXCEPT !.props = @ \o props]

\* fastrace::Event::new(name)
Event_new(name) == [name |-> name, props |-> <<>>]

\* span.add_event(event)
add_event(span, event) == [span EXCEPT !.events = Append(@, event)]

(* --------------------------- EventNameFinder -------------------------- *)
\* The finder's state is its `name`: <<>> for None, <<s>> for Some(s).

EventNameFinder_record_bool(name, field) ==
    IF field.name = "message" THEN <<bool_to_string(field.value.b)>> ELSE name

EventNameFinder_record_f64(name, field) ==
    IF field.name = "message" THEN <<f64_to_string(field.value)>> ELSE name

EventNameFinder_record_i64(name, field) ==
    IF field.name = "message" THEN <<i64_to_string(field.value.i)>> ELSE name

EventNameFinder_record_str(name, field) ==
    IF field.name = "message" THEN <<field.value.s>> ELSE name

EventNameFinder_record_debug(name, field) ==
    IF field.name = "message" THEN <<debug_format(field.value)>> ELSE name

EventNameFinder_record_error(name, field) ==
    IF field.name = "message" THEN <<field.value.display>> ELSE name

\* Faulty variant: the first "message" field wins.
EventNameFinder_visit_first(name, field) ==
    IF name # <<>> THEN name
    ELSE CASE field.value.kind = "bool" -> EventNameFinder_record_bool(name, field)
           [] field.value.kind = "f64" -> EventNameFinder_record_f64(name, field)
           [] field.value.kind = "i64" -> EventNameFinder_record_i64(name, field)
           [] field.value.kind = "str" -> EventNameFinder_record_str(name, field)
           [] field.value.kind = "debug" -> EventNameFinder_record_debug(name, field)
           [] OTHER -> EventNameFinder_record_error(name, field)

\* Value::record: the visitor method of the field's kind.
EventNameFinder_visit(name, field) ==
    CASE field.value.kind = "bool" -> EventNameFinder_record_bool(name, field)
      [] field.value.kind = "f64" -> EventNameFinder_record_f64(name, field)
      [] field.value.kind = "i64" -> EventNameFinder_record_i64(name, field)
      [] field.value.kind = "str" -> EventNameFinder_record_str(name, field)
      [] field.value.kind = "debug" -> EventNameFinder_record_debug(name, field)
      [] OTHER -> EventNameFinder_record_error(name, field)

\* event.record(&mut name_finder): every field, in the order presented.
RECURSIVE EventNameFinder_record(_, _)
EventNameFinder_record(name, fields) ==
    IF fields = <<>> THEN name
    ELSE EventNameFinder_record(EventNameFinder_visit(name, Head(fields)), Tail(fields))

(* ----------------------------- EventVisitor --------------------------- *)

EventVisitor_record_bool(event, field) ==
    IF field.name = "message" THEN event
    ELSE with_property(event, field.name, bool_to_string(field.value.b))

EventVisitor_record_f64(event, field) ==
    IF field.name = "message" THEN event
    ELSE with_property(event, field.name, f64_to_string(field.value))

EventVisitor_record_i64(event, field) ==
    IF field.name = "message" THEN event
    ELSE with_property(event, field.name, i64_to_string(field.value.i))

EventVisitor_record_str(event, field) ==
    IF field.name = "message" THEN event
    ELSE with_property(event, field.name, field.value.s)

EventVisitor_record_debug(event, field) ==
    IF field.name = "message" THEN event
    ELSE with_property(event, field.name, debug_format(field.value))

EventVisitor_record_error(event, field) ==
    IF field.name = "message" THEN event
    ELSE LET chain == error_chain(field.value)
             error_msg == field.value.display
             e1 == with_property(event, field.name, error_msg)
             e2 == with_property(e1, FIELD_EXCEPTION_MESSAGE, error_msg)
             e3 == with_property(e2, field.name \o ".chain", vec_debug(chain))
         IN  with_property(e3, FIELD_EXCEPTION_STACKTRACE, vec_debug(chain))

EventVisitor_visit(event, field) ==
    CASE field.value.kind = "bool" -> EventVisitor_record_bool(event, field)
      [] field.value.kind = "f64" -> EventVisitor_record_f64(event, field)
      [] field.value.kind = "i64" -> EventVisitor_record_i64(event, field)
      [] field.value.kind = "str" -> EventVisitor_record_str(event, field)
      [] field.value.kind = "debug" -> EventVisitor_record_debug(event, field)
      [] OTHER -> EventVisitor_record_error(event, field)

\* event.record(&mut EventVisitor { fastrace_event })
RECURSIVE EventVisitor_record(_, _)
EventVisitor_record(event, fields) ==
    IF fields = <<>> THEN event
    ELSE EventVisitor_record(EventVisitor_visit(event, Head(fields)), Tail(fields))

(* ------------------------- SpanAttributeVisitor ----------------------- *)

SpanAttributeVisitor_record_bool(span, field) ==
    with_property(span, field.name, bool_to_string(field.value.b))

SpanAttributeVisitor_record_f64(span, field) ==
    with_property(span, field.name, f64_to_string(field.value))

\* Faulty variant: a key the span already has is given the new value.
SpanAttributeVisitor_record_i64_overwrite(span, field) ==
    IF \E i \in DOMAIN span.props : span.props[i][1] = field.name
    THEN [span EXCEPT !.props =
              [i \in DOMAIN @ |-> IF @[i][1] = field.name
                                  THEN <<field.name, i64_to_string(field.value.i)>>
                                  ELSE @[i]]]
    ELSE with_property(span, field.name, i64_to_string(field.value.i))

SpanAttributeVisitor_record_i64(span, field) ==
    with_property(span, field.name, i64_to_string(field.value.i))

SpanAttributeVisitor_record_str(span, field) ==
    with_property(span, field.name, field.value.s)

\* Faulty variant: the value is formatted with {} where the code has {:?}.
SpanAttributeVisitor_record_debug_display(span, field) ==
    with_property(span, field.name, field.value.text)

SpanAttributeVisitor_record_debug(span, field) ==
    with_property(span, field.name, debug_format(field.value))

\* Faulty variant: an error without a source gets no chain properties.
SpanAttributeVisitor_record_error_no_empty_chain(span, field) ==
    LET chain == error_chain(field.value)
        error_msg == field.value.display
        s1 == with_property(span, field.name, error_msg)
        s2 == with_property(s1, FIELD_EXCEPTION_MESSAGE, error_msg)
        s3 == with_property(s2, field.name \o ".chain", vec_debug(chain))
    IN  IF chain = <<>> THEN s2
        ELSE with_property(s3, FIELD_EXCEPTION_STACKTRACE, vec_debug(chain))

SpanAttributeVisitor_record_error(span, field) ==
    LET chain == error_chain(field.value)
        error_msg == field.value.display
        s1 == with_property(span, field.name, error_msg)
        s2 == with_property(s1, FIELD_EXCEPTION_MESSAGE, error_msg)
        s3 == with_property(s2, field.name \o ".chain", vec_debug(chain))
    IN  with_property(s3, FIELD_EXCEPTION_STACKTRACE, vec_debug(chain))

SpanAttributeVisitor_visit(span, field) ==
    CASE field.value.kind = "bool" -> SpanAttributeVisitor_record_bool(span, field)
      [] field.value.kind = "f64" -> SpanAttributeVisitor_record_f64(span, field)
      [] field.value.kind = "i64" -> SpanAttributeVisitor_record_i64(span, field)
      [] field.value.kind = "str" -> SpanAttributeVisitor_record_str(span, field)
      [] field.value.kind = "debug" -> SpanAttributeVisitor_record_debug(span, field)
      [] OTHER -> SpanAttributeVisitor_record_error(span, field)

\* attrs.record(&mut SpanAttributeVisitor { .. }) and values.record(..)
RECURSIVE SpanAttributeVisitor_record(_, _)
SpanAttributeVisitor_record(span, fields) ==
    IF fields = <<>> THEN span
    ELSE SpanAttributeVisitor_record(SpanAttributeVisitor_visit(span, Head(fields)),
                                     Tail(fields))

(* ------------------------------- state -------------------------------- *)

VARIABLES
    live,          \* the span identifiers the registry holds
    filtered,      \* the live spans a per-layer filter hides from this layer
    ext,           \* span id -> the fastrace::Span in its extensions, or NoSpan
    stack,         \* thread -> the spans it has entered, innermost last
    local_parent,  \* thread -> whether a fastrace local parent is set on it
    THREAD_ID,     \* thread -> its LazyCell: <<>> until first use, then <<id>>
    layer,         \* the FastraceCompatLayer: location, with_threads, with_level
    calls,         \* thread -> the on_record / on_event call it is inside, if any
    next_trace,    \* the trace identity the next SpanContext::random() returns
    fatal,         \* "none", or the message of the panic that ended the run
    last           \* the notification or application step taken last

vars == <<live, filtered, ext, stack, local_parent, THREAD_ID, layer, calls,
          next_trace, fatal, last>>

(* ------------------ what the notifications are given ------------------ *)

\* attrs.parent() / event.parent(), is_contextual(), is_root(): tracing_core's
\* Parent is exactly one of Root, Current (contextual) and Explicit(id).
ParentRoot == [kind |-> "Root", id |-> 0]
ParentCurrent == [kind |-> "Current", id |-> 0]
ParentExplicit(id) == [kind |-> "Explicit", id |-> id]

is_contextual(x) == x.parent.kind = "Current"

\* Static call-site metadata; file, module_path and line are Options
\* (<<>> for None, <<v>> for Some(v)), level is the Level's discriminant.
Metadata(name, target, level, file, module_path, line) ==
    [name |-> name, target |-> target, level |-> level, file |-> file,
     module_path |-> module_path, line |-> line]

\* Context::span(id): the live span, unless this layer's filter hides it.
ctx_span(id) == id \in live /\ id \notin filtered

\* Context::lookup_current() on thread t: the innermost entered span this
\* layer's filter does not hide; <<>> for None, <<id>> for Some.
RECURSIVE innermost_visible(_)
innermost_visible(s) ==
    IF s = <<>> THEN <<>>
    ELSE IF s[Len(s)] \notin filtered THEN <<s[Len(s)]>>
    ELSE innermost_visible(SubSeq(s, 1, Len(s) - 1))

lookup_current(t) == innermost_visible(stack[t])

\* SpanContext::current_local_parent().is_some() on thread t.
current_local_parent(t) == local_parent[t]

(* -------------------------- parent resolution ------------------------- *)

\* Faulty variant: the ambient local parent is tried before the current span.
new_fastrace_span_contextual_local_first(attrs, t) ==
    LET cur == lookup_current(t)
        name == attrs.meta.name
    IN  IF current_local_parent(t)
        THEN Span_enter_with_local_parent(name, t)
        ELSE IF cur # <<>> /\ ext[cur[1]] # NoSpan
        THEN Span_enter_with_parent(name, cur[1], ext[cur[1]])
        ELSE Span_root(name, next_trace)

\* The contextual branch of new_fastrace_span.
new_fastrace_span_contextual(attrs, t) ==
    LET cur == lookup_current(t)
        name == attrs.meta.name
    IN  IF cur # <<>> /\ ext[cur[1]] # NoSpan
        THEN Span_enter_with_parent(name, cur[1], ext[cur[1]])
        ELSE IF current_local_parent(t)
        THEN Span_enter_with_local_parent(name, t)
        ELSE Span_root(name, next_trace)

\* Faulty variant: a current span with a record wins over the explicit parent.
new_fastrace_span_current_first(attrs, t) ==
    LET name == attrs.meta.name
        cur == lookup_current(t)
    IN  IF cur # <<>> /\ ext[cur[1]] # NoSpan
        THEN Span_enter_with_parent(name, cur[1], ext[cur[1]])
        ELSE IF attrs.parent.kind = "Explicit" /\ ctx_span(attrs.parent.id)
        THEN IF ext[attrs.parent.id] # NoSpan
             THEN Span_enter_with_parent(name, attrs.parent.id, ext[attrs.parent.id])
             ELSE Span_default
        ELSE IF is_contextual(attrs)
        THEN new_fastrace_span_contextual(attrs, t)
        ELSE Span_root(name, next_trace)

\* Faulty variant: an explicit parent the layer cannot see demotes the span
\* to a contextual one.
new_fastrace_span_unseen_contextual(attrs, t) ==
    LET name == attrs.meta.name
    IN  IF attrs.parent.kind = "Explicit" /\ ctx_span(attrs.parent.id)
        THEN IF ext[attrs.parent.id] # NoSpan
             THEN Span_enter_with_parent(name, attrs.parent.id, ext[attrs.parent.id])
             ELSE Span_default
        ELSE IF is_contextual(attrs) \/ attrs.parent.kind = "Explicit"
        THEN new_fastrace_span_contextual(attrs, t)
        ELSE Span_root(name, next_trace)

\* Faulty variant: an explicit root is resolved from the context like any
\* other span.
new_fastrace_span_root_contextual(attrs, t) ==
    LET name == attrs.meta.name
    IN  IF attrs.parent.kind = "Explicit" /\ ctx_span(attrs.parent.id)
        THEN IF ext[attrs.parent.id] # NoSpan
             THEN Span_enter_with_parent(name, attrs.parent.id, ext[attrs.parent.id])
             ELSE Span_default
        ELSE new_fastrace_span_contextual(attrs, t)

\* FastraceCompatLayer::new_fastrace_span(attrs, ctx) on thread t.
new_fastrace_span(attrs, t) ==
    LET name == attrs.meta.name
    IN  IF attrs.parent.kind = "Explicit" /\ ctx_span(attrs.parent.id)
        THEN IF ext[attrs.parent.id] # NoSpan
             THEN Span_enter_with_parent(name, attrs.parent.id, ext[attrs.parent.id])
             ELSE Span_default
        ELSE IF is_contextual(attrs)
        THEN new_fastrace_span_contextual(attrs, t)
        ELSE Span_root(name, next_trace)

(* --------------------------- thread identity -------------------------- *)

\* Text as a sequence of characters, where the code takes it apart.
ThreadIdPrefix == <<"T", "h", "r", "e", "a", "d", "I", "d", "(">>

RECURSIVE u64_chars(_)
u64_chars(n) ==
    IF n < 10 THEN <<DigitStr(n)>> ELSE Append(u64_chars(n \div 10), DigitStr(n % 10))

\* format!("{:?}", id) of a ThreadId.
ThreadId_debug(id) == ThreadIdPrefix \o u64_chars(id) \o <<")">>

starts_with(s, pat) == Len(s) >= Len(pat) /\ SubSeq(s, 1, Len(pat)) = pat

RECURSIVE trim_start_matches(_, _)
trim_start_matches(s, pat) ==
    IF pat # <<>> /\ starts_with(s, pat)
    THEN trim_start_matches(SubSeq(s, Len(pat) + 1, Len(s)), pat)
    ELSE s

RECURSIVE trim_end_matches(_, _)
trim_end_matches(s, ch) ==
    IF s # <<>> /\ s[Len(s)] = ch
    THEN trim_end_matches(SubSeq(s, 1, Len(s) - 1), ch)
    ELSE s

DigitVal(c) ==
    CASE c = "0" -> 0 [] c = "1" -> 1 [] c = "2" -> 2 [] c = "3" -> 3
      [] c = "4" -> 4 [] c = "5" -> 5 [] c = "6" -> 6 [] c = "7" -> 7
      [] c = "8" -> 8 [] c = "9" -> 9 [] OTHER -> 0 - 1

\* str::parse::<u64>: the number, or -1 for Err (empty, or not all digits).
RECURSIVE parse_u64_from(_, _)
parse_u64_from(acc, s) ==
    IF s = <<>> THEN acc
    ELSE IF DigitVal(Head(s)) < 0 THEN 0 - 1
    ELSE parse_u64_from(acc * 10 + DigitVal(Head(s)), Tail(s))

parse_u64(s) == IF s = <<>> THEN 0 - 1 ELSE parse_u64_from(0, s)

\* thread_id_integer(id); -1 where expect() panics.
thread_id_integer(id) ==
    parse_u64(trim_end_matches(trim_start_matches(ThreadId_debug(id), ThreadIdPrefix), ")"))

\* thread::current().id() of thread t: the main thread is ThreadId(1).
current_thread_id(t) == IF t = 1 THEN 1 ELSE 10 + t

\* thread::current().name() of thread t: the main thread is named.
current_thread_name(t) == IF t = 1 THEN <<"main">> ELSE <<>>

\* Faulty variant: one cell for the process, a static that is not thread_local.
THREAD_ID_force_shared(t) ==
    IF \E u \in DOMAIN THREAD_ID : THREAD_ID[u] # <<>>
    THEN THREAD_ID[CHOOSE u \in DOMAIN THREAD_ID : THREAD_ID[u] # <<>>][1]
    ELSE thread_id_integer(current_thread_id(t))

\* The value THREAD_ID.with(..) reads on thread t, forcing the cell.
THREAD_ID_force(t) ==
    IF THREAD_ID[t] = <<>> THEN thread_id_integer(current_thread_id(t))
    ELSE THREAD_ID[t][1]

(* ------------------------------ the layer ----------------------------- *)

\* Faulty variant: the defaults of the level and thread flags are exchanged.
FastraceCompatLayer_new_level_for_threads ==
    [location |-> TRUE, with_threads |-> FALSE, with_level |-> TRUE]

\* FastraceCompatLayer::new()
FastraceCompatLayer_new ==
    [location |-> TRUE, with_threads |-> TRUE, with_level |-> FALSE]

\* with_location, with_threads, with_level: Self { flag, ..self }
FastraceCompatLayer_with_location(self, location) == [self EXCEPT !.location = location]

FastraceCompatLayer_with_threads(self, threads) == [self EXCEPT !.with_threads = threads]

FastraceCompatLayer_with_level(self, level) == [self EXCEPT !.with_level = level]

\* Faulty variant: an unnamed thread gets an empty thread.name.
on_new_span_props_placeholder(meta, t) ==
    LET location ==
            IF layer.location
            THEN (IF meta.file # <<>>
                  THEN << <<"code.filepath", meta.file[1]>> >> ELSE <<>>)
                 \o (IF meta.module_path # <<>>
                     THEN << <<"code.namespace", meta.module_path[1]>> >> ELSE <<>>)
                 \o (IF meta.line # <<>>
                     THEN << <<"code.lineno", u64_to_string(meta.line[1])>> >> ELSE <<>>)
            ELSE <<>>
        threads ==
            IF layer.with_threads
            THEN << <<"thread.id", u64_to_string(THREAD_ID_force(t))>>,
                    <<"thread.name", IF current_thread_name(t) # <<>>
                                     THEN current_thread_name(t)[1] ELSE "">> >>
            ELSE <<>>
        level ==
            IF layer.with_level
            THEN << <<"level", level_as_str(meta.level)>> >> ELSE <<>>
    IN  location \o threads \o level

\* The `props` on_new_span collects before the fields: location, thread,
\* level, each under its flag, each Option only when it is Some.
on_new_span_props(meta, t) ==
    LET location ==
            IF layer.location
            THEN (IF meta.file # <<>>
                  THEN << <<"code.filepath", meta.file[1]>> >> ELSE <<>>)
                 \o (IF meta.module_path # <<>>
                     THEN << <<"code.namespace", meta.module_path[1]>> >> ELSE <<>>)
                 \o (IF meta.line # <<>>
                     THEN << <<"code.lineno", u64_to_string(meta.line[1])>> >> ELSE <<>>)
            ELSE <<>>
        threads ==
            IF layer.with_threads
            THEN << <<"thread.id", u64_to_string(THREAD_ID_force(t))>> >>
                 \o (IF current_thread_name(t) # <<>>
                     THEN << <<"thread.name", current_thread_name(t)[1]>> >> ELSE <<>>)
            ELSE <<>>
        level ==
            IF layer.with_level
            THEN << <<"level", level_as_str(meta.level)>> >> ELSE <<>>
    IN  location \o threads \o level

\* ExtensionsMut::insert(val): assert!(self.replace(val).is_none()).  The
\* slot holds the new value either way; the assertion fails when it held one.
extensions_insert(id, span) ==
    /\ ext' = [ext EXCEPT ![id] = span]
    /\ fatal' = IF ext[id] # NoSpan
                THEN "assertion failed: self.replace(val).is_none()"
                ELSE fatal

\* Layer::on_new_span(attrs, id, ctx) on thread t.  The registry holds the
\* span when the layer is notified, so ctx.span(id) reads the registry as the
\* step leaves it.
on_new_span(t, id, attrs) ==
    IF ~(id \in live' /\ id \notin filtered')
    THEN /\ fatal' = "Span not found, this is a bug"
         /\ UNCHANGED <<ext, THREAD_ID, next_trace>>
    ELSE LET fastrace_span == new_fastrace_span(attrs, t)
             with_props == with_properties(fastrace_span, on_new_span_props(attrs.meta, t))
             recorded == SpanAttributeVisitor_record(with_props, attrs.fields)
         IN  /\ next_trace' = IF fastrace_span.via = "root"
                              THEN next_trace + 1 ELSE next_trace
             /\ IF layer.with_threads /\ THREAD_ID_force(t) < 0
                THEN /\ fatal' = "thread ID should parse as an integer"
                     /\ UNCHANGED <<ext, THREAD_ID>>
                ELSE /\ THREAD_ID' = IF layer.with_threads
                                     THEN [THREAD_ID EXCEPT ![t] = <<THREAD_ID_force(t)>>]
                                     ELSE THREAD_ID
                     /\ extensions_insert(id, recorded)

\* Faulty variant: a span without a record is given one to record onto.
on_record_or_insert(id, values) ==
    IF ~ctx_span(id)
    THEN /\ fatal' = "Span not found, this is a bug"
         /\ UNCHANGED ext
    ELSE /\ ext' = [ext EXCEPT ![id] =
                       SpanAttributeVisitor_record(IF @ = NoSpan THEN Span_default ELSE @,
                                                   values.fields)]
         /\ UNCHANGED fatal

\* Faulty variant: a span without a record is a panic, like a span not found.
on_record_expecting(id, values) ==
    IF ~ctx_span(id) \/ ext[id] = NoSpan
    THEN /\ fatal' = "Span not found, this is a bug"
         /\ UNCHANGED ext
    ELSE /\ ext' = [ext EXCEPT ![id] = SpanAttributeVisitor_record(@, values.fields)]
         /\ UNCHANGED fatal

\* Layer::on_record(id, values, ctx)
on_record(id, values) ==
    IF ~ctx_span(id)
    THEN /\ fatal' = "Span not found, this is a bug"
         /\ UNCHANGED ext
    ELSE IF ext[id] = NoSpan
    THEN UNCHANGED <<ext, fatal>>
    ELSE /\ ext' = [ext EXCEPT ![id] = SpanAttributeVisitor_record(@, values.fields)]
         /\ UNCHANGED fatal

\* Faulty variant: an event whose explicit parent is not found goes to the
\* current span.
on_event_span_or_current(t, event) ==
    IF event.parent.kind = "Explicit" /\ ctx_span(event.parent.id)
    THEN <<event.parent.id>>
    ELSE IF is_contextual(event) \/ event.parent.kind = "Explicit"
    THEN lookup_current(t) ELSE <<>>

\* Faulty variant: the current span is preferred to the explicit parent.
on_event_span_current_first(t, event) ==
    IF lookup_current(t) # <<>>
    THEN lookup_current(t)
    ELSE IF event.parent.kind = "Explicit" /\ ctx_span(event.parent.id)
    THEN <<event.parent.id>>
    ELSE <<>>

\* The span on_event attaches the event to: <<>> for None, <<id>> for Some.
on_event_span(t, event) ==
    IF event.parent.kind = "Explicit" /\ ctx_span(event.parent.id)
    THEN <<event.parent.id>>
    ELSE IF is_contextual(event) THEN lookup_current(t) ELSE <<>>

\* The event's name: the name finder's, or else the metadata's.
event_name(event) ==
    LET name_finder == EventNameFinder_record(<<>>, event.fields)
    IN  IF name_finder # <<>> THEN name_finder[1] ELSE event.meta.name

\* Faulty variant: the event's level is gated by with_level, as the span's is.
fastrace_event_level_gated(event) ==
    LET meta == event.meta
        e0 == with_properties(Event_new(event_name(event)),
                              (IF layer.with_level
                               THEN << <<"level", level_as_str(meta.level)>> >> ELSE <<>>)
                              \o << <<"target", meta.target>> >>)
        e1 == IF layer.location /\ meta.file # <<>>
              THEN with_property(e0, "code.filepath", meta.file[1]) ELSE e0
        e2 == IF layer.location /\ meta.module_path # <<>>
              THEN with_property(e1, "code.namespace", meta.module_path[1]) ELSE e1
        e3 == IF layer.location /\ meta.line # <<>>
              THEN with_property(e2, "code.lineno", u64_to_string(meta.line[1])) ELSE e2
    IN  EventVisitor_record(e3, event.fields)

\* The fastrace::Event on_event builds.
fastrace_event(event) ==
    LET meta == event.meta
        e0 == with_properties(Event_new(event_name(event)),
                              << <<"level", level_as_str(meta.level)>>,
                                 <<"target", meta.target>> >>)
        e1 == IF layer.location /\ meta.file # <<>>
              THEN with_property(e0, "code.filepath", meta.file[1]) ELSE e0
        e2 == IF layer.location /\ meta.module_path # <<>>
              THEN with_property(e1, "code.namespace", meta.module_path[1]) ELSE e1
        e3 == IF layer.location /\ meta.line # <<>>
              THEN with_property(e2, "code.lineno", u64_to_string(meta.line[1])) ELSE e2
    IN  EventVisitor_record(e3, event.fields)

\* Faulty variant: the event is also attached to the span current on the
\* thread when that is not its owner.
on_event_and_current(t, event) ==
    LET span == on_event_span(t, event)
        cur == lookup_current(t)
    IN  IF span # <<>> /\ ext[span[1]] # NoSpan
        THEN ext' = [id \in DOMAIN ext |->
                        IF id = span[1] \/ (cur = <<id>> /\ ext[id] # NoSpan)
                        THEN add_event(ext[id], fastrace_event(event))
                        ELSE ext[id]]
        ELSE UNCHANGED ext

\* Layer::on_event(event, ctx) on thread t.
on_event(t, event) ==
    LET span == on_event_span(t, event)
    IN  IF span # <<>> /\ ext[span[1]] # NoSpan
        THEN ext' = [ext EXCEPT ![span[1]] = add_event(@, fastrace_event(event))]
        ELSE UNCHANGED ext

(* ------------------- the instrumented application --------------------- *)

NoArg == [fields |-> <<>>]

\* A thread that is inside no handler.
Idle == [op |-> "idle", id |-> 0, held |-> FALSE, rest |-> <<>>, arg |-> NoArg]

Step(op, t, id, arg) == [op |-> op, t |-> t, id |-> id, arg |-> arg]

\* Registry::new_span: the next identifier.
next_id == CHOOSE id \in SpanIds : id \notin live /\ \A j \in SpanIds : j < id => j \in live

\* The span an explicit parent names is one the application holds a handle of.
ParentOk(parent) == parent.kind = "Explicit" => parent.id \in live

\* tracing::span!(..): the registry stores the span and notifies the layer.
NewSpan(t, attrs) ==
    /\ fatal = "none"
    /\ live # SpanIds
    /\ ParentOk(attrs.parent)
    /\ live' = live \cup {next_id}
    /\ UNCHANGED <<filtered, stack, local_parent, layer, calls>>
    /\ on_new_span(t, next_id, attrs)
    /\ last' = Step("on_new_span", t, next_id, attrs)

\* A span this layer is not notified of: one its per-layer filter hides
\* (hidden), or one created while the layer was not attached.
NewSpanUnseen(hidden) ==
    /\ fatal = "none"
    /\ live # SpanIds
    /\ live' = live \cup {next_id}
    /\ filtered' = IF hidden THEN filtered \cup {next_id} ELSE filtered
    /\ UNCHANGED <<ext, stack, local_parent, THREAD_ID, layer, calls, next_trace, fatal>>
    /\ last' = Step("new_span_unseen", 0, next_id, NoArg)

\* span.enter() on thread t
Enter(t, id) ==
    /\ fatal = "none"
    /\ id \in live
    /\ Len(stack[t]) < MaxStack
    /\ stack' = [stack EXCEPT ![t] = Append(@, id)]
    /\ UNCHANGED <<live, filtered, ext, local_parent, THREAD_ID, layer, calls, next_trace, fatal>>
    /\ last' = Step("enter", t, id, NoArg)

\* The guard of the innermost entered span of thread t is dropped.
Exit(t) ==
    /\ fatal = "none"
    /\ stack[t] # <<>>
    /\ stack' = [stack EXCEPT ![t] = SubSeq(@, 1, Len(@) - 1)]
    /\ UNCHANGED <<live, filtered, ext, local_parent, THREAD_ID, layer, calls, next_trace, fatal>>
    /\ last' = Step("exit", t, 0, NoArg)

\* let _guard = root.set_local_parent() on thread t
SetLocalParent(t) ==
    /\ fatal = "none"
    /\ ~local_parent[t]
    /\ local_parent' = [local_parent EXCEPT ![t] = TRUE]
    /\ UNCHANGED <<live, filtered, ext, stack, THREAD_ID, layer, calls, next_trace, fatal>>
    /\ last' = Step("set_local_parent", t, 0, NoArg)

\* The local-parent guard of thread t is dropped.
DropLocalParent(t) ==
    /\ fatal = "none"
    /\ local_parent[t]
    /\ local_parent' = [local_parent EXCEPT ![t] = FALSE]
    /\ UNCHANGED <<live, filtered, ext, stack, THREAD_ID, layer, calls, next_trace, fatal>>
    /\ last' = Step("drop_local_parent", t, 0, NoArg)

\* span.record(..) on thread t: the layer is notified for a span it sees.
Record(t, id, values) ==
    /\ fatal = "none"
    /\ ctx_span(id)
    /\ ext[id] # NoSpan => Len(ext[id].props) < MaxProps
    /\ on_record(id, values)
    /\ UNCHANGED <<live, filtered, stack, local_parent, THREAD_ID, layer, calls, next_trace>>
    /\ last' = Step("on_record", t, id, values)

\* tracing::event!(..) on thread t
Emit(t, event) ==
    /\ fatal = "none"
    /\ ParentOk(event.parent)
    /\ LET span == on_event_span(t, event)
       IN  (span # <<>> /\ ext[span[1]] # NoSpan) => Len(ext[span[1]].events) < MaxEvents
    /\ on_event(t, event)
    /\ UNCHANGED <<live, filtered, stack, local_parent, THREAD_ID, layer, calls, next_trace, fatal>>
    /\ last' = Step("on_event", t, 0, event)

(* ------------------------------- inputs ------------------------------- *)

\* The call sites of examples/basic.rs.
SpanMeta == Metadata("send request", "basic", 0, <<"examples/basic.rs">>, <<"basic">>, <<25>>)
EventMeta ==
    Metadata("event examples/basic.rs:28", "basic", 4, <<"examples/basic.rs">>, <<"basic">>, <<28>>)

Parents == {ParentRoot, ParentCurrent} \cup {ParentExplicit(id) : id \in SpanIds}

SpanAttrs ==
    [meta : {SpanMeta}, parent : Parents,
     fields : {<<Field("work_units", I64Value(2))>>}]

RecordValues == [fields : {<<Field("work_units", I64Value(3))>>}]

Events ==
    [meta : {EventMeta}, parent : Parents,
     fields : {<<Field("message", DebugValue("arguments", "logged"))>>}]

(* ---------------------------- specification --------------------------- *)

Init ==
    /\ live = {}
    /\ filtered = {}
    /\ ext = [id \in SpanIds |-> NoSpan]
    /\ stack = [t \in Threads |-> <<>>]
    /\ local_parent = [t \in Threads |-> FALSE]
    /\ THREAD_ID = [t \in Threads |-> <<>>]
    /\ layer = FastraceCompatLayer_new
    /\ calls = [t \in Threads |-> Idle]
    /\ next_trace = 1
    /\ fatal = "none"
    /\ last = Step("init", 0, 0, NoArg)

Next ==
    \/ \E t \in Threads, attrs \in SpanAttrs : NewSpan(t, attrs)
    \/ \E hidden \in BOOLEAN : NewSpanUnseen(hidden)
    \/ \E t \in Threads, id \in SpanIds : Enter(t, id)
    \/ \E t \in Threads : Exit(t)
    \/ \E t \in Threads : SetLocalParent(t)
    \/ \E t \in Threads : DropLocalParent(t)
    \/ \E t \in Threads, id \in SpanIds, values \in RecordValues : Record(t, id, values)
    \/ \E t \in Threads, event \in Events : Emit(t, event)

Spec == Init /\ [][Next]_vars

(* ------------------- the field protocol, explored --------------------- *)
\* One span, created, entered, updated and given one event, with fields of
\* every kind.

\* An error with display text `display` whose source() chain displays as
\* `texts`, outermost source first.
RECURSIVE ErrorOf(_, _)
ErrorOf(display, texts) ==
    ErrorValue(display,
               IF texts = <<>> THEN <<>> ELSE <<ErrorOf(Head(texts), Tail(texts))>>)

\* display text and chain of the errors recorded
ErrorInputs == {<<"E", <<>>>>, <<"E", <<"A">>>>, <<"E", <<"A", "B">>>>}

\* One value of each of the six kinds, the debug kind in both its forms.
FieldValues ==
    {BoolValue(TRUE), F64Value("finite", FALSE, 1, <<5>>), I64Value(0 - 7),
     StrValue("hello"), DebugValue("arguments", "logged"), DebugValue("str", "hi"),
     ErrorOf("E", <<"A", "B">>)}

EventFields ==
    {Field(n, v) : n \in {"message", "cause"}, v \in FieldValues}
    \cup {Field("cause", ErrorOf("E", <<>>))}

RECURSIVE SeqsUpTo(_, _)
SeqsUpTo(S, n) ==
    IF n = 0 THEN {<<>>}
    ELSE LET shorter == SeqsUpTo(S, n - 1)
         IN  shorter \cup {Append(q, x) : q \in shorter, x \in S}

FieldEvents ==
    [meta : {EventMeta}, parent : {ParentCurrent}, fields : SeqsUpTo(EventFields, MaxFields)]

SpanFieldSeqs ==
    {<<>>, <<Field("work_units", I64Value(2))>>, <<Field("message", ErrorOf("E", <<"A">>))>>}
    \cup {<<Field("cause", ErrorOf(e[1], e[2]))>> : e \in ErrorInputs}
    \cup {<<Field("cause", ErrorOf("E", <<"A">>)), Field("work_units", I64Value(2))>>}

\* One field of each kind under an ordinary name and under two names the
\* bridge also uses as keys of its own.
CreationFields ==
    {Field(n, v) : n \in {"work_units", "thread.id", "exception.message"}, v \in FieldValues}

FieldAttrs ==
    [meta : {SpanMeta}, parent : {ParentRoot, ParentCurrent},
     fields : SpanFieldSeqs \cup {<<f>> : f \in CreationFields}]

FieldRecordValues ==
    [fields : (SpanFieldSeqs \ {<<>>})
              \cup {<<Field("work_units", I64Value(3))>>, <<Field("cause", StrValue("hello"))>>}]

NoEvents == \A id \in SpanIds : IF ext[id] = NoSpan THEN TRUE ELSE ext[id].events = <<>>

NextFields ==
    \/ \E t \in Threads, attrs \in FieldAttrs : live = {} /\ NewSpan(t, attrs)
    \/ \E t \in Threads, id \in SpanIds : Enter(t, id)
    \/ \E t \in Threads : Exit(t)
    \/ \E t \in Threads, id \in SpanIds, values \in FieldRecordValues : Record(t, id, values)
    \/ \E t \in Threads, event \in FieldEvents : NoEvents /\ Emit(t, event)

SpecFields == Init /\ [][NextFields]_vars

(* ------------------ the configurations, two threads ------------------- *)
\* Every configuration the builder methods reach, call sites with any subset
\* of file, module path and line, on the main thread and on an unnamed
\* spawned one.

TwoThreads == {1, 2}

LayerConfigs ==
    {FastraceCompatLayer_with_level(
         FastraceCompatLayer_with_threads(
             FastraceCompatLayer_with_location(FastraceCompatLayer_new, location),
             threads),
         level) : location \in BOOLEAN, threads \in BOOLEAN, level \in BOOLEAN}

SpanMetas ==
    {Metadata("send request", "basic", 0, file, module_path, line) :
        file \in {<<>>, <<"examples/basic.rs">>},
        module_path \in {<<>>, <<"basic">>},
        line \in {<<>>, <<25>>}}

EventMetas ==
    {Metadata("event examples/basic.rs:28", "basic", 4, file, module_path, line) :
        file \in {<<>>, <<"examples/basic.rs">>},
        module_path \in {<<>>, <<"basic">>},
        line \in {<<>>, <<28>>}}

ConfigAttrs ==
    [meta : SpanMetas, parent : {ParentCurrent},
     fields : {<<Field("work_units", I64Value(2))>>}]

ConfigEvents ==
    [meta : EventMetas, parent : {ParentCurrent},
     fields : {<<>>, <<Field("work_units", I64Value(2))>>}]

InitConfig ==
    /\ live = {}
    /\ filtered = {}
    /\ ext = [id \in SpanIds |-> NoSpan]
    /\ stack = [t \in TwoThreads |-> <<>>]
    /\ local_parent = [t \in TwoThreads |-> FALSE]
    /\ THREAD_ID = [t \in TwoThreads |-> <<>>]
    /\ layer \in LayerConfigs
    /\ calls = [t \in TwoThreads |-> Idle]
    /\ next_trace = 1
    /\ fatal = "none"
    /\ last = Step("init", 0, 0, NoArg)

\* Two spans at most, the second from the call site of examples/basic.rs, and
\* one event.
NextConfig ==
    \/ \E t \in TwoThreads, attrs \in ConfigAttrs :
         /\ Cardinality(live) < 2
         /\ live # {} => attrs.meta = SpanMeta
         /\ NewSpan(t, attrs)
    \/ \E t \in TwoThreads, id \in SpanIds : Enter(t, id)
    \/ \E t \in TwoThreads : Exit(t)
    \/ \E t \in TwoThreads, event \in ConfigEvents : NoEvents /\ Emit(t, event)

SpecConfig == InitConfig /\ [][NextConfig]_vars

(* ------------------ a span notified more than once ------------------- *)
\* The extensions of a span have one slot per type: a second
\* FastraceCompatLayer on the same registry, or a host that repeats a
\* notification, has on_new_span run for a span that already has its
\* fastrace::Span.

NewSpanAgain(t, id, attrs) ==
    /\ fatal = "none"
    /\ ctx_span(id)
    /\ ParentOk(attrs.parent)
    /\ UNCHANGED <<live, filtered, stack, local_parent, layer, calls>>
    /\ on_new_span(t, id, attrs)
    /\ last' = Step("on_new_span", t, id, attrs)

AgainAttrs ==
    [meta : {SpanMeta}, parent : {ParentRoot, ParentCurrent},
     fields : {<<>>, <<Field("work_units", I64Value(2))>>}]

NextAgain ==
    \/ \E t \in Threads, attrs \in AgainAttrs : Cardinality(live) < 2 /\ NewSpan(t, attrs)
    \/ \E hidden \in BOOLEAN : Cardinality(live) < 2 /\ NewSpanUnseen(hidden)
    \/ \E t \in Threads, id \in SpanIds, attrs \in AgainAttrs : NewSpanAgain(t, id, attrs)
    \/ \E t \in Threads, id \in SpanIds : Enter(t, id)
    \/ \E t \in Threads : Exit(t)
    \/ \E t \in Threads, id \in SpanIds, values \in RecordValues : Record(t, id, values)
    \/ \E t \in Threads, event \in Events : Emit(t, event)

SpecAgain == Init /\ [][NextAgain]_vars

(* ------------- two threads notifying about the same span ------------- *)
\* on_record and on_event taken step by step: the handler takes the span's
\* extensions with extensions_mut(), works on the fastrace::Span behind the
\* guard, and drops the guard when it returns.

\* span.extensions_mut() returns once no other guard on the span's extensions
\* is alive (they are behind a lock of the registry).
extensions_mut_free(id) == \A u \in DOMAIN calls : ~(calls[u].held /\ calls[u].id = id)

\* Faulty variant: the guard is a temporary, dropped after each field.
on_record_next_unguarded(call) == [call EXCEPT !.rest = Tail(@), !.held = FALSE]

\* values.record(&mut SpanAttributeVisitor { .. }) goes on to the next field;
\* `extension` stays alive until on_record returns.
on_record_next(call) == [call EXCEPT !.rest = Tail(@)]

RECURSIVE PendingFields(_)
PendingFields(S) ==
    IF S = {} THEN 0
    ELSE LET t == CHOOSE u \in S : TRUE
         IN  Len(calls[t].rest) + PendingFields(S \ {t})

InFlightEvents == Cardinality({t \in DOMAIN calls : calls[t].op = "on_event"})

\* on_record up to `let Some(fastrace_span) = extension.get_mut() else return`
RecordBegin(t, id, values) ==
    /\ fatal = "none"
    /\ calls[t] = Idle
    /\ ctx_span(id)
    /\ extensions_mut_free(id)
    /\ ext[id] # NoSpan
         => Len(ext[id].props) + PendingFields(DOMAIN calls) + Len(values.fields) <= MaxProps
    /\ calls' = [calls EXCEPT ![t] =
                    [op |-> "on_record", id |-> id, held |-> TRUE,
                     rest |-> IF ext[id] = NoSpan THEN <<>> ELSE values.fields,
                     arg |-> values]]
    /\ UNCHANGED <<live, filtered, ext, stack, local_parent, THREAD_ID, layer,
                   next_trace, fatal>>
    /\ last' = Step("on_record_begin", t, id, values)

\* The visitor is given one field.
RecordField(t) ==
    /\ fatal = "none"
    /\ calls[t].op = "on_record"
    /\ calls[t].rest # <<>>
    /\ ext' = [ext EXCEPT ![calls[t].id] =
                   SpanAttributeVisitor_visit(@, Head(calls[t].rest))]
    /\ calls' = [calls EXCEPT ![t] = on_record_next(@)]
    /\ UNCHANGED <<live, filtered, stack, local_parent, THREAD_ID, layer,
                   next_trace, fatal>>
    /\ last' = Step("on_record_field", t, calls[t].id, calls[t].arg)

\* on_record returns and `extension` is dropped.
RecordEnd(t) ==
    /\ fatal = "none"
    /\ calls[t].op = "on_record"
    /\ calls[t].rest = <<>>
    /\ calls' = [calls EXCEPT ![t] = Idle]
    /\ UNCHANGED <<live, filtered, ext, stack, local_parent, THREAD_ID, layer,
                   next_trace, fatal>>
    /\ last' = Step("on_record", t, calls[t].id, calls[t].arg)

\* on_event up to `let mut extensions = span.extensions_mut()`, for an event
\* that has a span.
EmitBegin(t, event) ==
    /\ fatal = "none"
    /\ calls[t] = Idle
    /\ ParentOk(event.parent)
    /\ on_event_span(t, event) # <<>>
    /\ extensions_mut_free(on_event_span(t, event)[1])
    /\ ext[on_event_span(t, event)[1]] # NoSpan
         => Len(ext[on_event_span(t, event)[1]].events) + InFlightEvents
              < MaxEvents * Cardinality(DOMAIN calls)
    /\ calls' = [calls EXCEPT ![t] =
                    [op |-> "on_event", id |-> on_event_span(t, event)[1],
                     held |-> TRUE, rest |-> <<>>, arg |-> event]]
    /\ UNCHANGED <<live, filtered, ext, stack, local_parent, THREAD_ID, layer,
                   next_trace, fatal>>
    /\ last' = Step("on_event_begin", t, 0, event)

\* The event is built and added, and `extensions` is dropped.
EmitAttach(t) ==
    /\ fatal = "none"
    /\ calls[t].op = "on_event"
    /\ ext' = IF ext[calls[t].id] # NoSpan
              THEN [ext EXCEPT ![calls[t].id] = add_event(@, fastrace_event(calls[t].arg))]
              ELSE ext
    /\ calls' = [calls EXCEPT ![t] = Idle]
    /\ UNCHANGED <<live, filtered, stack, local_parent, THREAD_ID, layer,
                   next_trace, fatal>>
    /\ last' = Step("on_event", t, 0, calls[t].arg)

\* Each thread records fields of its own: two at once, or one.
RecordValuesOf(t) ==
    [fields : {<<Field("first", I64Value(t)), Field("second", I64Value(t))>>,
               <<Field("work_units", I64Value(t))>>}]

EventsOf(t) ==
    [meta : {EventMeta}, parent : {ParentExplicit(1)},
     fields : {<<Field("message", StrValue(u64_to_string(t)))>>}]

\* A bridge without location and thread properties, two threads.
InitLocked ==
    /\ live = {}
    /\ filtered = {}
    /\ ext = [id \in SpanIds |-> NoSpan]
    /\ stack = [t \in TwoThreads |-> <<>>]
    /\ local_parent = [t \in TwoThreads |-> FALSE]
    /\ THREAD_ID = [t \in TwoThreads |-> <<>>]
    /\ layer = FastraceCompatLayer_with_threads(
                   FastraceCompatLayer_with_location(FastraceCompatLayer_new, FALSE), FALSE)
    /\ calls = [t \in TwoThreads |-> Idle]
    /\ next_trace = 1
    /\ fatal = "none"
    /\ last = Step("init", 0, 0, NoArg)

NextLocked ==
    \/ \E t \in TwoThreads :
         /\ live = {}
         /\ NewSpan(t, [meta |-> SpanMeta, parent |-> ParentRoot, fields |-> <<>>])
    \/ \E t \in TwoThreads, id \in SpanIds :
         \E values \in RecordValuesOf(t) : RecordBegin(t, id, values)
    \/ \E t \in TwoThreads : RecordField(t)
    \/ \E t \in TwoThreads : RecordEnd(t)
    \/ \E t \in TwoThreads : \E event \in EventsOf(t) : EmitBegin(t, event)
    \/ \E t \in TwoThreads : EmitAttach(t)

SpecLocked == InitLocked /\ [][NextLocked]_vars

(* ----------------------------- properties ----------------------------- *)
\* `last` is set by every step, and on_new_span changes neither the stacks,
\* the local parents, the filter nor the record of any other span: in the
\* state it leaves, they are what the notification found.

\* The span the last notification created, and what it was given.
NewId == last.id
NewParent == last.arg.parent
Created == last.op = "on_new_span"

\* Whether span id carries a fastrace::Span (a Bridged Span Record).
HasRecord(id) == ext[id] # NoSpan

\* The current span of thread t carries a record.
CurrentHasRecord(t) == lookup_current(t) # <<>> /\ HasRecord(lookup_current(t)[1])

\* The span is a child of the fastrace span of host span p.
ChildOf(span, p) ==
    /\ span.via = "parent"
    /\ span.parent = [of |-> "span", id |-> p]
    /\ span.trace = ext[p].trace
    /\ span.recording = ext[p].recording

\* The span is a child of thread t's ambient local parent.
ChildOfLocalParent(span, t) ==
    /\ span.via = "local_parent"
    /\ span.parent = [of |-> "local", id |-> t]
    /\ span.trace = AmbientTrace(t)

\* The span of host span id is a root whose trace identity no other span has.
FreshRoot(id) ==
    /\ ext[id].via = "root"
    /\ ext[id].parent = NoParent
    /\ ext[id].recording
    /\ \A j \in SpanIds \ {id} : HasRecord(j) => ext[j].trace # ext[id].trace
    /\ \A t \in Threads : ext[id].trace # AmbientTrace(t)

\* C1: a span created with an explicit parent that resolves to a live span
\* carrying a record is a child of that record's span, whatever span is
\* current on the thread and whether or not a local parent is set.
C1_ExplicitParent ==
    (Created /\ NewParent.kind = "Explicit" /\ ctx_span(NewParent.id)
        /\ HasRecord(NewParent.id))
    => ChildOf(ext[NewId], NewParent.id)

\* C1's case: the explicit parent carries a record while another span with a
\* record is current and a local parent is set.
C1_Witness ==
    /\ Created /\ NewParent.kind = "Explicit" /\ ctx_span(NewParent.id)
    /\ HasRecord(NewParent.id)
    /\ CurrentHasRecord(last.t) /\ lookup_current(last.t)[1] # NewParent.id
    /\ current_local_parent(last.t)
    /\ ext[NewId].parent.id = NewParent.id

\* What contextual resolution yields on thread t for the span of host span id.
ContextualResult(id, t) ==
    IF CurrentHasRecord(t) THEN ChildOf(ext[id], lookup_current(t)[1])
    ELSE IF current_local_parent(t) THEN ChildOfLocalParent(ext[id], t)
    ELSE FreshRoot(id)

\* C2 as stated: a span whose explicit parent the host framework cannot
\* resolve gets the parent contextual resolution would give it.
C2_AsStated ==
    (Created /\ NewParent.kind = "Explicit" /\ ~ctx_span(NewParent.id))
    => ContextualResult(NewId, last.t)

\* C2, amended: a span whose explicit parent the host framework cannot
\* resolve is a fresh root with a newly generated trace identity, whatever
\* span is current and whether or not a local parent is set.
C2_UnresolvedParentIsRoot ==
    (Created /\ NewParent.kind = "Explicit" /\ ~ctx_span(NewParent.id))
    => FreshRoot(NewId)

\* C2's case: the explicit parent is hidden from the layer while a span with
\* a record is current and a local parent is set.
C2_Witness ==
    /\ Created /\ NewParent.kind = "Explicit" /\ ~ctx_span(NewParent.id)
    /\ CurrentHasRecord(last.t)
    /\ current_local_parent(last.t)
    /\ ext[NewId].via = "root"

\* C3: a contextual span is a child of the current span when that carries a
\* record, else a child of the ambient local parent when one is set, else a
\* fresh root.
C3_ContextualPriority ==
    (Created /\ NewParent.kind = "Current") => ContextualResult(NewId, last.t)

\* C3's case: both a current span with a record and a local parent exist.
C3_Witness ==
    /\ Created /\ NewParent.kind = "Current"
    /\ CurrentHasRecord(last.t)
    /\ current_local_parent(last.t)
    /\ ext[NewId].parent = [of |-> "span", id |-> lookup_current(last.t)[1]]

\* C4: an explicit root is a fresh root with a newly generated trace
\* identity, whatever is current and whatever local parent is set.
C4_ExplicitRoot ==
    (Created /\ NewParent.kind = "Root") => FreshRoot(NewId)

\* C4's case: an explicit root created under a current span with a record
\* and a local parent.
C4_Witness ==
    /\ Created /\ NewParent.kind = "Root"
    /\ CurrentHasRecord(last.t)
    /\ current_local_parent(last.t)
    /\ ext[NewId].via = "root"

\* The fastrace span a record wraps: everything but what it accumulates.
Handle(span) ==
    [via |-> span.via, parent |-> span.parent, trace |-> span.trace,
     recording |-> span.recording, name |-> span.name]

\* C5: a span whose creation the layer has processed carries a record from
\* then on; a record appears only in the on_new_span step for its span, on a
\* span that carried none; and no step, on_record and on_event included,
\* removes a record or replaces the span it wraps.
C5_OneRecordPerSpan ==
    [][/\ last'.op = "on_new_span"
            => (~HasRecord(last'.id) /\ ext'[last'.id] # NoSpan)
       /\ \A id \in SpanIds :
            /\ (~HasRecord(id) /\ ext'[id] # NoSpan)
                 => (last'.op = "on_new_span" /\ last'.id = id)
            /\ HasRecord(id)
                 => (ext'[id] # NoSpan /\ Handle(ext'[id]) = Handle(ext[id]))]_vars

\* C5's case: a span with a record has taken an event and then a field
\* update, and carries its record still.
C5_Witness ==
    /\ last.op = "on_record"
    /\ HasRecord(last.id)
    /\ ext[last.id].events # <<>>
    /\ \E id \in live : ctx_span(id) /\ ~HasRecord(id)

\* C6: a field update for a span that carries no record completes without a
\* panic, creates no record and leaves every record as it was.
C6_RecordMissIsNoOp ==
    [][(last'.op = "on_record" /\ ~HasRecord(last'.id))
         => (ext' = ext /\ fatal' = "none")]_vars

\* C6's case: a field update for a span without a record, while another span
\* carries one.
C6_Witness ==
    /\ last.op = "on_record"
    /\ ~HasRecord(last.id)
    /\ \E id \in live : HasRecord(id)
    /\ fatal = "none"

\* The span an event belongs to, as the design states it: the explicit
\* parent when the host framework resolves it, else the current span when the
\* event is contextual; <<>> when there is none.
OwningSpan(t, event) ==
    IF event.parent.kind = "Explicit"
    THEN (IF ctx_span(event.parent.id) THEN <<event.parent.id>> ELSE <<>>)
    ELSE IF event.parent.kind = "Current" THEN lookup_current(t)
    ELSE <<>>

\* C7: an event with no owning span, or whose owning span carries no record,
\* is dropped: no record changes, none is created, no span is minted, nothing
\* panics.
C7_EventDropped ==
    [][(last'.op = "on_event"
          /\ (OwningSpan(last'.t, last'.arg) = <<>>
              \/ ~HasRecord(OwningSpan(last'.t, last'.arg)[1])))
         => (ext' = ext /\ live' = live /\ next_trace' = next_trace
             /\ fatal' = "none")]_vars

\* C7's case: an event whose explicit parent is hidden from the layer, sent
\* while a span with a record is current.
C7_Witness ==
    /\ last.op = "on_event"
    /\ last.arg.parent.kind = "Explicit" /\ ~ctx_span(last.arg.parent.id)
    /\ CurrentHasRecord(last.t)
    /\ ext[lookup_current(last.t)[1]].events = <<>>

\* Exactly one event is added to the record of span id, and no other record
\* changes.
OneEventAddedTo(id) ==
    /\ Len(ext'[id].events) = Len(ext[id].events) + 1
    /\ SubSeq(ext'[id].events, 1, Len(ext[id].events)) = ext[id].events
    /\ \A j \in SpanIds \ {id} : ext'[j] = ext[j]

\* C8: an event whose explicit parent resolves to a span carrying a record is
\* added once to that record, not to the current span's; a contextual event
\* is added once to the current span's record; no other record changes.
C8_EventOwner ==
    [][/\ (last'.op = "on_event" /\ last'.arg.parent.kind = "Explicit"
             /\ ctx_span(last'.arg.parent.id) /\ HasRecord(last'.arg.parent.id))
            => OneEventAddedTo(last'.arg.parent.id)
       /\ (last'.op = "on_event" /\ last'.arg.parent.kind = "Current"
             /\ CurrentHasRecord(last'.t))
            => OneEventAddedTo(lookup_current(last'.t)[1])]_vars

\* C8's case: the event went to its explicit parent while another span with
\* a record was current.
C8_Witness ==
    /\ last.op = "on_event"
    /\ last.arg.parent.kind = "Explicit" /\ ctx_span(last.arg.parent.id)
    /\ HasRecord(last.arg.parent.id)
    /\ CurrentHasRecord(last.t) /\ lookup_current(last.t)[1] # last.arg.parent.id
    /\ Len(ext[last.arg.parent.id].events) = 1
    /\ ext[lookup_current(last.t)[1]].events = <<>>

\* The textual form of a field value of each kind.
ValueText(v) ==
    CASE v.kind = "bool" -> (IF v.b THEN "true" ELSE "false")
      [] v.kind = "f64" -> f64_to_string(v)
      [] v.kind = "i64" -> i64_to_string(v.i)
      [] v.kind = "str" -> v.s
      [] v.kind = "debug" -> debug_format(v)
      [] OTHER -> v.display

MessageIndices(fields) == {i \in DOMAIN fields : fields[i].name = "message"}

\* The name the design gives an event: the text of its last "message" field,
\* or its declared name.
ExpectedName(event) ==
    LET idx == MessageIndices(event.fields)
    IN  IF idx = {} THEN event.meta.name
        ELSE ValueText(event.fields[CHOOSE i \in idx : \A j \in idx : j <= i].value)

\* The properties a field contributes: four for an error, one for any other
\* kind, none for an event's "message" field.
Width(field, ofEvent) ==
    IF ofEvent /\ field.name = "message" THEN 0
    ELSE IF field.value.kind = "error" THEN 4 ELSE 1

RECURSIVE WidthBefore(_, _, _)
WidthBefore(fields, i, ofEvent) ==
    IF i <= 1 THEN 0
    ELSE WidthBefore(fields, i - 1, ofEvent) + Width(fields[i - 1], ofEvent)

TotalWidth(fields, ofEvent) == WidthBefore(fields, Len(fields) + 1, ofEvent)

\* The properties on_event sets before the fields: level, target, location.
BaselineCount(meta) ==
    2 + (IF layer.location
         THEN Len(meta.file) + Len(meta.module_path) + Len(meta.line) ELSE 0)

\* The event the last notification attached.
EventAttached ==
    /\ last.op = "on_event"
    /\ OwningSpan(last.t, last.arg) # <<>>
    /\ HasRecord(OwningSpan(last.t, last.arg)[1])

AttachedEvent ==
    LET events == ext[OwningSpan(last.t, last.arg)[1]].events
    IN  events[Len(events)]

\* C9: an attached event is named by the text of the last "message" field
\* presented, or by its declared name when there is none, and no "message"
\* field, of whatever kind, contributes a property.
C9_EventName ==
    EventAttached
    => /\ AttachedEvent.name = ExpectedName(last.arg)
       /\ \A i \in DOMAIN AttachedEvent.props : AttachedEvent.props[i][1] # "message"
       /\ Len(AttachedEvent.props)
            = BaselineCount(last.arg.meta) + TotalWidth(last.arg.fields, TRUE)

\* C9's case: two "message" fields of different kinds, the second an error.
C9_Witness ==
    /\ EventAttached
    /\ Len(last.arg.fields) = 2
    /\ last.arg.fields[1].name = "message" /\ last.arg.fields[1].value.kind = "str"
    /\ last.arg.fields[2].name = "message" /\ last.arg.fields[2].value.kind = "error"
    /\ AttachedEvent.name = "E"
    /\ Len(AttachedEvent.props) = BaselineCount(last.arg.meta)

\* The four properties of an error field `name` with display text `display`
\* and chain `texts`.
FourProperties(name, display, texts) ==
    << <<name, display>>, <<"exception.message", display>>,
       <<name \o ".chain", vec_debug(texts)>>,
       <<"exception.stacktrace", vec_debug(texts)>> >>

\* `props` is `base` properties followed by what `fields` contribute, each
\* error field contributing its four properties in order.
ErrorsExpanded(props, base, fields, ofEvent) ==
    /\ Len(props) = base + TotalWidth(fields, ofEvent)
    /\ \A i \in DOMAIN fields : \A e \in ErrorInputs :
         (fields[i].value = ErrorOf(e[1], e[2]) /\ Width(fields[i], ofEvent) > 0)
         => SubSeq(props, base + WidthBefore(fields, i, ofEvent) + 1,
                   base + WidthBefore(fields, i, ofEvent) + 4)
              = FourProperties(fields[i].name, e[1], e[2])

\* C10: an error field f of a span creation, of a field update of a span with
\* a record, or of an event (unless named "message") adds exactly four
\* properties, in order: f and exception.message with the display text,
\* f.chain and exception.stacktrace with the chain, an empty chain included.
C10_ErrorExpansion ==
    [][/\ last'.op = "on_new_span"
            => ErrorsExpanded(ext'[last'.id].props,
                              Len(on_new_span_props(last'.arg.meta, last'.t)),
                              last'.arg.fields, FALSE)
       /\ (last'.op = "on_record" /\ HasRecord(last'.id))
            => ErrorsExpanded(ext'[last'.id].props, Len(ext[last'.id].props),
                              last'.arg.fields, FALSE)
       /\ (last'.op = "on_event" /\ OwningSpan(last'.t, last'.arg) # <<>>
             /\ HasRecord(OwningSpan(last'.t, last'.arg)[1]))
            => LET events == ext'[OwningSpan(last'.t, last'.arg)[1]].events
               IN  ErrorsExpanded(events[Len(events)].props,
                                  BaselineCount(last'.arg.meta),
                                  last'.arg.fields, TRUE)]_vars

\* C10's case: a field update recorded an error without a source onto a span
\* whose event carries an error field with a chain of two.
C10_Witness ==
    /\ last.op = "on_record" /\ HasRecord(last.id)
    /\ last.arg.fields = <<Field("cause", ErrorOf("E", <<>>))>>
    /\ SubSeq(ext[last.id].props, Len(ext[last.id].props) - 3, Len(ext[last.id].props))
         = << <<"cause", "E">>, <<"exception.message", "E">>,
              <<"cause.chain", "[]">>, <<"exception.stacktrace", "[]">> >>
    /\ Len(ext[last.id].events) = 1
    /\ \E i \in DOMAIN ext[last.id].events[1].props :
         ext[last.id].events[1].props[i] = <<"cause.chain", "[\"A\", \"B\"]">>

\* The keys on_new_span and the error expansion attach on their own account.
EnrichmentKeys ==
    {"code.filepath", "code.namespace", "code.lineno", "thread.id", "thread.name", "level"}

ExceptionKeys == {FIELD_EXCEPTION_MESSAGE, FIELD_EXCEPTION_STACKTRACE}

\* The record of the span just created has exactly one property under the
\* name of its single field, and its value is the text of the field's value.
OneEntryForField ==
    LET field == last.arg.fields[1]
        props == ext[last.id].props
        at == {i \in DOMAIN props : props[i][1] = field.name}
    IN  /\ Cardinality(at) = 1
        /\ \A i \in at : props[i][2] = ValueText(field.value)

\* C11 as stated: whatever the name of the single field of a span creation,
\* the record has exactly one property of that name, with the value's text.
C11_AsStated ==
    (Created /\ HasRecord(last.id) /\ Len(last.arg.fields) = 1) => OneEntryForField

\* C11, amended: the same for every field name that is not a key the bridge
\* attaches itself (an enrichment key; for an error value, exception.message
\* and exception.stacktrace).
C11_OneEntryPerField ==
    (/\ Created /\ HasRecord(last.id) /\ Len(last.arg.fields) = 1
     /\ last.arg.fields[1].name \notin EnrichmentKeys
     /\ last.arg.fields[1].value.kind = "error"
          => last.arg.fields[1].name \notin ExceptionKeys)
    => OneEntryForField

\* C11's case: a span created with one Debug-kind field whose value prints in
\* quotes.
C11_Witness ==
    /\ Created /\ HasRecord(last.id)
    /\ last.arg.fields = <<Field("work_units", DebugValue("str", "hi"))>>
    /\ \E i \in DOMAIN ext[last.id].props :
         ext[last.id].props[i] = <<"work_units", "\"hi\"">>

\* The step is the second of two consecutive field updates of one tracked
\* span that each record the same single field name.
SecondUpdateOfName ==
    /\ last.op = "on_record" /\ last'.op = "on_record"
    /\ last.id = last'.id /\ HasRecord(last.id)
    /\ Len(last.arg.fields) = 1 /\ Len(last'.arg.fields) = 1
    /\ last.arg.fields[1].name = last'.arg.fields[1].name

\* The occurrence of the key that the first update appended is where it was,
\* with the value it had.
EarlierOccurrenceKept ==
    LET props == ext[last.id].props
        first == Len(props) - Width(last.arg.fields[1], FALSE) + 1
    IN  /\ props[first] = <<last.arg.fields[1].name, ValueText(last.arg.fields[1].value)>>
        /\ SubSeq(ext'[last.id].props, 1, Len(props)) = props

\* C12 as stated: the second update adds one property, whatever the kind.
C12_AsStated ==
    [][SecondUpdateOfName
       => /\ Len(ext'[last.id].props) = Len(ext[last.id].props) + 1
          /\ EarlierOccurrenceKept]_vars

\* C12, amended: the second update appends what its field contributes (one
\* property, four for an error value) and the earlier occurrence of the key
\* is still there with its original value.
C12_UpdatesAppend ==
    [][SecondUpdateOfName
       => /\ Len(ext'[last.id].props)
               = Len(ext[last.id].props) + Width(last'.arg.fields[1], FALSE)
          /\ EarlierOccurrenceKept]_vars

\* C12's case: work_units recorded as 2 and then as 3; both are in the record.
C12_Witness ==
    /\ last.op = "on_record" /\ HasRecord(last.id)
    /\ last.arg.fields = <<Field("work_units", I64Value(3))>>
    /\ Len(ext[last.id].props) >= 2
    /\ ext[last.id].props[Len(ext[last.id].props) - 1] = <<"work_units", "2">>
    /\ ext[last.id].props[Len(ext[last.id].props)] = <<"work_units", "3">>

Has(props, key, value) == \E i \in DOMAIN props : props[i] = <<key, value>>

HasKey(props, key) == \E i \in DOMAIN props : props[i][1] = key

\* Every call-site item that is available is among the properties.
LocationCarried(props, meta) ==
    /\ meta.file # <<>> => Has(props, "code.filepath", meta.file[1])
    /\ meta.module_path # <<>> => Has(props, "code.namespace", meta.module_path[1])
    /\ meta.line # <<>> => Has(props, "code.lineno", u64_to_string(meta.line[1]))

\* thread.id, with the number of the thread that delivered the notification.
ThreadIdCarried(props, t) == Has(props, "thread.id", u64_to_string(current_thread_id(t)))

\* What the claim says of a span created by a bridge built with no overrides.
DefaultSpanCarries ==
    (Created /\ HasRecord(last.id))
    => /\ LocationCarried(ext[last.id].props, last.arg.meta)
       /\ ThreadIdCarried(ext[last.id].props, last.t)
       /\ ~HasKey(ext[last.id].props, "level")

\* C13 as stated: spans and events both carry location and thread.id; spans
\* carry no level, events do.
C13_AsStated ==
    layer = FastraceCompatLayer_new
    => /\ DefaultSpanCarries
       /\ EventAttached
            => /\ LocationCarried(AttachedEvent.props, last.arg.meta)
               /\ ThreadIdCarried(AttachedEvent.props, last.t)
               /\ Has(AttachedEvent.props, "level", level_as_str(last.arg.meta.level))

\* C13, amended: with no overrides a created span carries the available
\* location items and thread.id and no level; a bridged event carries the
\* available location items and level, and no thread property.
C13_Defaults ==
    layer = FastraceCompatLayer_new
    => /\ DefaultSpanCarries
       /\ EventAttached
            => /\ LocationCarried(AttachedEvent.props, last.arg.meta)
               /\ ~HasKey(AttachedEvent.props, "thread.id")
               /\ ~HasKey(AttachedEvent.props, "thread.name")
               /\ Has(AttachedEvent.props, "level", level_as_str(last.arg.meta.level))

\* C13's case: under the defaults, the spawned thread created a span and the
\* event attached to it has a file but no line.
C13_Witness ==
    /\ layer = FastraceCompatLayer_new
    /\ EventAttached
    /\ last.arg.meta.file # <<>> /\ last.arg.meta.line = <<>>
    /\ Has(AttachedEvent.props, "code.filepath", "examples/basic.rs")
    /\ Has(ext[OwningSpan(last.t, last.arg)[1]].props, "thread.id", "12")

LocationKeys == {"code.filepath", "code.namespace", "code.lineno"}

\* C14: whatever the configuration, a bridged event's first two properties
\* are level and target, in that order, and every location property and every
\* property of a field comes after them.
C14_EventBaseline ==
    EventAttached
    => LET props == AttachedEvent.props
       IN  /\ Len(props) >= 2
           /\ props[1] = <<"level", level_as_str(last.arg.meta.level)>>
           /\ props[2] = <<"target", last.arg.meta.target>>
           /\ \A i \in DOMAIN props :
                (\/ props[i][1] \in LocationKeys
                 \/ \E j \in DOMAIN last.arg.fields : props[i][1] = last.arg.fields[j].name)
                => i > 2

\* C14's case: a bridge with with_level(false) and with_location(true)
\* attached an event that has a location and a field.
C14_Witness ==
    /\ EventAttached
    /\ ~layer.with_level /\ layer.location
    /\ AttachedEvent.props =
         << <<"level", "ERROR">>, <<"target", "basic">>,
            <<"code.filepath", "examples/basic.rs">>, <<"code.namespace", "basic">>,
            <<"code.lineno", "28">>, <<"work_units", "2">> >>

\* The values a record has under thread.id.
ThreadIdValues(span) == {span.props[i][2] : i \in {j \in DOMAIN span.props : span.props[j][1] = "thread.id"}}

\* C15: a thread's identifier is computed at most once and never changes, a
\* notification touches no other thread's identifier, the thread.id a span
\* creation attaches is that of the notifying thread, and two span creations
\* in a row on one thread attach the same thread.id.
C15_ThreadIdentity ==
    [][/\ \A t \in DOMAIN THREAD_ID :
            /\ THREAD_ID[t] # <<>> => THREAD_ID'[t] = THREAD_ID[t]
            /\ t # last'.t => THREAD_ID'[t] = THREAD_ID[t]
       /\ (last'.op = "on_new_span" /\ layer.with_threads)
            => /\ THREAD_ID'[last'.t] # <<>>
               /\ ThreadIdValues(ext'[last'.id])
                    = {u64_to_string(THREAD_ID'[last'.t][1])}
               /\ ThreadIdCarried(ext'[last'.id].props, last'.t)
       /\ (last'.op = "on_new_span" /\ last.op = "on_new_span" /\ last'.t = last.t)
            => ThreadIdValues(ext'[last'.id]) = ThreadIdValues(ext[last.id])]_vars

\* C15's case: the spawned thread created two spans, one after the other; both
\* carry its identifier.
C15_Witness ==
    /\ Created /\ last.t = 2 /\ last.id = 2
    /\ HasRecord(1) /\ HasRecord(2)
    /\ THREAD_ID[2] = <<12>>
    /\ ThreadIdValues(ext[1]) = {"12"} /\ ThreadIdValues(ext[2]) = {"12"}

\* C16: a span creation for an identifier that already holds a record aborts,
\* and the record stored for that identifier is left as it was.
C16_DuplicateCreation ==
    [][(last'.op = "on_new_span" /\ HasRecord(last'.id))
       => /\ fatal' # "none"
          /\ ext'[last'.id] = ext[last'.id]]_vars

\* The place of an enrichment key in the order location, thread, level.
EnrichmentRank(key) ==
    CASE key = "code.filepath" -> 1 [] key = "code.namespace" -> 2
      [] key = "code.lineno" -> 3 [] key = "thread.id" -> 4
      [] key = "thread.name" -> 5 [] key = "level" -> 6 [] OTHER -> 7

\* The name the operating system reports for the threads of the program.
ThreadNamed(t) == t = 1

\* C17: on span creation each enrichment property is attached exactly when
\* its flag is set and its item is available, with the item's text; the
\* enrichment properties come first, in the order location, thread, level,
\* and the properties of the fields follow.
C17_Enrichment ==
    (Created /\ HasRecord(last.id))
    => LET props == ext[last.id].props
           meta == last.arg.meta
           n == Len(props) - TotalWidth(last.arg.fields, FALSE)
           enrich == SubSeq(props, 1, n)
       IN  /\ n >= 0
           /\ \A i \in 1..n : enrich[i][1] \in EnrichmentKeys
           /\ \A i \in 1..n : \A j \in 1..n :
                i < j => EnrichmentRank(enrich[i][1]) < EnrichmentRank(enrich[j][1])
           /\ \A i \in (n + 1)..Len(props) : props[i][1] \notin EnrichmentKeys
           /\ HasKey(props, "code.filepath") <=> (layer.location /\ meta.file # <<>>)
           /\ HasKey(props, "code.namespace") <=> (layer.location /\ meta.module_path # <<>>)
           /\ HasKey(props, "code.lineno") <=> (layer.location /\ meta.line # <<>>)
           /\ HasKey(props, "thread.id") <=> layer.with_threads
           /\ HasKey(props, "thread.name") <=> (layer.with_threads /\ ThreadNamed(last.t))
           /\ HasKey(props, "level") <=> layer.with_level
           /\ layer.location => LocationCarried(props, meta)
           /\ layer.with_threads => ThreadIdCarried(props, last.t)
           /\ (layer.with_threads /\ ThreadNamed(last.t)) => Has(props, "thread.name", "main")
           /\ layer.with_level => Has(props, "level", "TRACE")

\* C17's case: every flag set, on the unnamed thread, at a call site with a
\* file and a line but no module path.
C17_Witness ==
    /\ Created /\ HasRecord(last.id)
    /\ ext[last.id].props =
         << <<"code.filepath", "examples/basic.rs">>, <<"code.lineno", "25">>,
            <<"thread.id", "12">>, <<"level", "TRACE">>, <<"work_units", "2">> >>

\* C18: the span a creation stores is a child of the explicit parent's
\* record, of the current span's record or of the ambient local parent, or a
\* fresh root, and it records: a parent that is live but carries no record
\* does not leave the new span a detached no-op.
C18_RealDestinationSpan ==
    (Created /\ HasRecord(NewId))
    => /\ ext[NewId].recording
       /\ \/ /\ NewParent.kind = "Explicit" /\ HasRecord(NewParent.id)
             /\ ChildOf(ext[NewId], NewParent.id)
          \/ /\ CurrentHasRecord(last.t)
             /\ ChildOf(ext[NewId], lookup_current(last.t)[1])
          \/ ChildOfLocalParent(ext[NewId], last.t)
          \/ FreshRoot(NewId)

\* The span identifiers whose extension slot the step changes.
ChangedIds == {id \in SpanIds : ext'[id] # ext[id]}

\* C19: a notification changes the record of at most one span: a field
\* update of X only X's properties, an event only its owner's events, a span
\* creation only the slot of the new span.
C19_Frame ==
    [][/\ Cardinality(ChangedIds) <= 1
       /\ last'.op = "on_record"
            => /\ ChangedIds \subseteq {last'.id}
               /\ HasRecord(last'.id)
                    => /\ Handle(ext'[last'.id]) = Handle(ext[last'.id])
                       /\ ext'[last'.id].events = ext[last'.id].events
       /\ last'.op = "on_event"
            => /\ ChangedIds \subseteq
                    {id \in SpanIds : OwningSpan(last'.t, last'.arg) = <<id>>}
               /\ \A id \in ChangedIds :
                    /\ Handle(ext'[id]) = Handle(ext[id])
                    /\ ext'[id].props = ext[id].props
       /\ last'.op = "on_new_span"
            => /\ ChangedIds = {last'.id}
               /\ ext[last'.id] = NoSpan
       /\ last'.op \notin {"on_record", "on_event", "on_new_span"}
            => ChangedIds = {}]_vars

\* C19's case: a span was created as the child of a record that has a
\* property of a field update and an event, and another record exists.
C19_Witness ==
    /\ Created /\ HasRecord(NewId)
    /\ ext[NewId].via = "parent"
    /\ ext[ext[NewId].parent.id].events # <<>>
    /\ Has(ext[ext[NewId].parent.id].props, "work_units", "3")
    /\ \E j \in SpanIds \ {NewId, ext[NewId].parent.id} : HasRecord(j)

IsPrefix(p, q) == Len(p) <= Len(q) /\ SubSeq(q, 1, Len(p)) = p

\* The properties of fields none of which is an error, in field order.
PlainProperties(fields) ==
    [i \in DOMAIN fields |-> <<fields[i].name, ValueText(fields[i].value)>>]

\* C20: a notification holds the span's extensions alone from its first
\* access to its return; nothing attached to a record is lost; and when a
\* field update returns, the properties of its fields are the last ones of
\* the record, together and in field order, as an event that returns is the
\* last one of the record.
C20_Exclusive ==
    [][/\ \A t \in DOMAIN calls :
            /\ calls'[t].op # "idle" => calls'[t].held
            /\ \A u \in DOMAIN calls :
                 (t # u /\ calls'[t].held /\ calls'[u].held) => calls'[t].id # calls'[u].id
       /\ \A id \in SpanIds :
            HasRecord(id) => /\ ext'[id] # NoSpan
                             /\ IsPrefix(ext[id].props, ext'[id].props)
                             /\ IsPrefix(ext[id].events, ext'[id].events)
       /\ (last'.op = "on_record" /\ HasRecord(last'.id))
            => LET props == ext'[last'.id].props
                   n == Len(last'.arg.fields)
               IN  /\ Len(props) >= n
                   /\ SubSeq(props, Len(props) - n + 1, Len(props))
                        = PlainProperties(last'.arg.fields)
       /\ last'.op = "on_event"
            => LET events == ext'[last'.arg.parent.id].events
               IN  /\ events # <<>>
                   /\ events[Len(events)].name = ExpectedName(last'.arg)]_vars

\* C20's case: the main thread's update of two fields has returned; the other
\* thread's two fields and an event are in the record as well, and the two of
\* the main thread are last.
C20_Witness ==
    /\ last.op = "on_record" /\ last.t = 1 /\ HasRecord(last.id)
    /\ Len(last.arg.fields) = 2
    /\ ext[last.id].props =
         << <<"first", "2">>, <<"second", "2">>, <<"first", "1">>, <<"second", "1">> >>
    /\ Len(ext[last.id].events) = 1
    /\ calls[2].op = "idle"
====
